---- MODULE Spec2Model ----
(***************************************************************************)
(* Model of gemmi's include/gemmi/merge.hpp: struct Intensities (the       *)
(* validity filter, sort, merge_in_place, switch_to_asu_indices,           *)
(* remove_systematic_absences, resolution_range) and the seven readers     *)
(* read_*_intensities_from_{mtz,mmcif,xds}.                                *)
(*                                                                         *)
(* C++ double is modelled as binary floating point with round-to-nearest,  *)
(* ties-to-even, NaN and +/-infinity.  The significand has Precision bits  *)
(* (binary64 has 53); the exponent range is not bounded and +0/-0 are one  *)
(* value, so overflow, underflow and the sign of zero are not modelled.    *)
(***************************************************************************)
EXTENDS Integers, Sequences, FiniteSets

\* ------------------------------------------------------------------ bounds
\* significand width of the floating-point model
Precision == 4
\* longest observation sequence handed to merge_in_place
MaxLen == 3
\* most intensity values (each with its sigma) in a source file
MaxValues == 2
\* most merge_in_place calls on one Intensities
MaxCalls == 2

\* ------------------------------------------------------- double arithmetic
Pow2(k) == 2 ^ k
Abs(n) == IF n < 0 THEN -n ELSE n
Sgn(n) == IF n < 0 THEN -1 ELSE IF n = 0 THEN 0 ELSE 1

NaN == [k |-> "nan", n |-> 0, e |-> 0]
PInf == [k |-> "inf", n |-> 1, e |-> 0]
NInf == [k |-> "inf", n |-> -1, e |-> 0]
Inf(s) == IF s < 0 THEN NInf ELSE PInf

\* number of bits of a > 0 (0 for a = 0)
BitLen(a) == CHOOSE b \in 0..30 : a < Pow2(b) /\ (b = 0 \/ a >= Pow2(b - 1))

\* trailing zero bits of a > 0
RECURSIVE Tz(_)
Tz(a) == IF a % 2 = 1 THEN 0 ELSE 1 + Tz(a \div 2)

\* the finite double n * 2^e, n any integer that fits the significand:
\* stored with an odd n (or n = 0, e = 0) so that equal values are equal records
Fin(n, e) ==
  IF n = 0 THEN [k |-> "fin", n |-> 0, e |-> 0]
  ELSE LET t == Tz(Abs(n))
       IN [k |-> "fin", n |-> Sgn(n) * (Abs(n) \div Pow2(t)), e |-> e + t]

\* n * 2^e rounded to Precision significant bits, ties to even
Round(n, e) ==
  LET a == Abs(n)
      len == BitLen(a)
  IN IF len <= Precision THEN Fin(n, e)
     ELSE LET sh == len - Precision
              q == a \div Pow2(sh)
              r == a % Pow2(sh)
              half == Pow2(sh - 1)
              up == r > half \/ (r = half /\ q % 2 = 1)
          IN Fin(Sgn(n) * (IF up THEN q + 1 ELSE q), e + sh)

\* an integer literal as a double
D(i) == Round(i, 0)

IsNaN(x) == x.k = "nan"
IsInf(x) == x.k = "inf"
IsFin(x) == x.k = "fin"
IsZero(x) == x.k = "fin" /\ x.n = 0
SignOf(x) == Sgn(x.n)

\* x < y on doubles: false when either is NaN
Lt(x, y) ==
  IF IsNaN(x) \/ IsNaN(y) THEN FALSE
  ELSE IF IsInf(x) THEN x.n < 0 /\ ~(IsInf(y) /\ y.n < 0)
  ELSE IF IsInf(y) THEN y.n > 0
  ELSE LET m == IF x.e < y.e THEN x.e ELSE y.e
       IN x.n * Pow2(x.e - m) < y.n * Pow2(y.e - m)
Gt(x, y) == Lt(y, x)

FAdd(x, y) ==
  IF IsNaN(x) \/ IsNaN(y) THEN NaN
  ELSE IF IsInf(x) THEN (IF IsInf(y) /\ y.n # x.n THEN NaN ELSE x)
  ELSE IF IsInf(y) THEN y
  ELSE LET m == IF x.e < y.e THEN x.e ELSE y.e
       IN Round(x.n * Pow2(x.e - m) + y.n * Pow2(y.e - m), m)

FMul(x, y) ==
  IF IsNaN(x) \/ IsNaN(y) THEN NaN
  ELSE IF IsInf(x) \/ IsInf(y)
       THEN (IF IsZero(x) \/ IsZero(y) THEN NaN ELSE Inf(SignOf(x) * SignOf(y)))
  ELSE Round(x.n * y.n, x.e + y.e)

\* (num / den) * 2^e for num, den > 0: the quotient is taken to Precision + 2
\* bits and a sticky bit records a remainder, which rounds as the exact value
RoundQuot(s, num, den, e) ==
  LET sc == CHOOSE c \in 0..30 : num * Pow2(c) >= den * Pow2(Precision + 1)
                                 /\ (c = 0 \/ num * Pow2(c - 1) < den * Pow2(Precision + 1))
      q == (num * Pow2(sc)) \div den
      r == (num * Pow2(sc)) % den
  IN Round(s * (2 * q + (IF r = 0 THEN 0 ELSE 1)), e - sc - 1)

FDiv(x, y) ==
  IF IsNaN(x) \/ IsNaN(y) THEN NaN
  ELSE IF IsInf(x) THEN (IF IsInf(y) THEN NaN
                         ELSE Inf(SignOf(x) * (IF SignOf(y) < 0 THEN -1 ELSE 1)))
  ELSE IF IsInf(y) THEN D(0)
  ELSE IF IsZero(y) THEN (IF IsZero(x) THEN NaN ELSE Inf(SignOf(x)))
  ELSE IF IsZero(x) THEN D(0)
  ELSE RoundQuot(SignOf(x) * SignOf(y), Abs(x.n), Abs(y.n), x.e - y.e)

\* floor of the square root of a natural number
ISqrt(a) == CHOOSE r \in 0..Pow2(Precision + 3) : r * r <= a /\ (r + 1) * (r + 1) > a

FSqrt(x) ==
  IF IsNaN(x) THEN NaN
  ELSE IF IsInf(x) THEN (IF x.n > 0 THEN PInf ELSE NaN)
  ELSE IF IsZero(x) THEN D(0)
  ELSE IF x.n < 0 THEN NaN
  ELSE LET len == BitLen(x.n)
           s0 == IF len >= 2 * Precision + 3 THEN 0 ELSE 2 * Precision + 3 - len
           sc == IF (x.e - s0) % 2 = 0 THEN s0 ELSE s0 + 1
           a == x.n * Pow2(sc)
           r == ISqrt(a)
       IN Round(2 * r + (IF r * r = a THEN 0 ELSE 1), ((x.e - sc) \div 2) - 1)

\* ------------------------------------------- symmetry oracle and unit cell
\* Space groups a source can carry: none, or P 1 21 1 (number 4).
NoGroup == "null"
SpaceGroups == {"P21"}

\* the Miller indices the sources draw from: in the asymmetric unit and
\* systematically absent, in the unit, a Friedel mate of one in the unit,
\* and a rotation mate of one in the unit
Millers == {<<0, 1, 0>>, <<1, 1, 1>>, <<-1, -1, -1>>, <<-1, 1, -1>>}

find_spacegroup_by_number(number) == IF number = 4 THEN "P21" ELSE NoGroup

\* GroupOps::sym_ops of P 1 21 1 applied to hkl: x,y,z and -x,y+1/2,-z
sym_ops(hkl) == << hkl, <<-hkl[1], hkl[2], -hkl[3]>> >>
MillerNeg(hkl) == <<-hkl[1], -hkl[2], -hkl[3]>>

\* ReciprocalAsu::is_in for Laue class 2/m
is_in(hkl) == hkl[2] >= 0 /\ (hkl[3] > 0 \/ (hkl[3] = 0 /\ hkl[1] >= 0))

\* ReciprocalAsu::to_asu: the first operation (or its Friedel mate) that maps
\* hkl into the unit; isym is 2i+1 for operation i and 2i+2 for its mate
to_asu(hkl) ==
  LET ops == sym_ops(hkl)
      hit(i) == is_in(ops[i]) \/ is_in(MillerNeg(ops[i]))
      i == CHOOSE j \in 1..Len(ops) : hit(j) /\ \A m \in 1..(j - 1) : ~hit(m)
  IN IF is_in(ops[i]) THEN <<ops[i], 2 * i - 1>> ELSE <<MillerNeg(ops[i]), 2 * i>>

\* GroupOps::is_systematically_absent: 0k0 with k odd (the 2_1 screw axis)
is_systematically_absent(hkl) == hkl[1] = 0 /\ hkl[3] = 0 /\ hkl[2] % 2 = 1

\* UnitCell::calculate_1_d2 for the cell a = b = c = 1, all angles 90
calculate_1_d2(hkl) == D(hkl[1] * hkl[1] + hkl[2] * hkl[2] + hkl[3] * hkl[3])

\* ------------------------------------------------------------- Intensities
Refl(hkl, isign, value, sigma) ==
  [hkl |-> hkl, isign |-> isign, value |-> value, sigma |-> sigma]

\* std::tie(h, k, l, isign) < std::tie(o.h, o.k, o.l, o.isign)
TieLess(a, b) ==
  \E i \in 1..Len(a) : a[i] < b[i] /\ \A j \in 1..(i - 1) : a[j] = b[j]
Key(r) == <<r.hkl[1], r.hkl[2], r.hkl[3], r.isign>>
\* faulty variant: the comparison leaves isign out
ReflLess_without_isign(a, o) == TieLess(a.hkl, o.hkl)
ReflLess(a, o) == TieLess(Key(a), Key(o))

\* add_if_valid's test
\* faulty variant: sigma >= 0 is let through
is_valid_sigma_ge_0(refl) == ~IsNaN(refl.value) /\ ~Lt(refl.sigma, D(0)) /\ ~IsNaN(refl.sigma)
is_valid(refl) == ~IsNaN(refl.value) /\ Gt(refl.sigma, D(0))
add_if_valid(d, refl) == IF is_valid(refl) THEN Append(d, refl) ELSE d

\* std::sort(data.begin(), data.end()): every arrangement of the elements that
\* is ordered by operator<; the order of equivalent elements is unspecified
IndexPerms(n) == {p \in [1..n -> 1..n] : \A i, j \in 1..n : p[i] = p[j] => i = j}
IsSortedBy(t) == \A i, j \in 1..Len(t) : i < j => ~ReflLess(t[j], t[i])
\* faulty variant: no sort at all
sort_nothing(d) == {d}
sort(d) ==
  {t \in {[i \in 1..Len(d) |-> d[p[i]]] : p \in IndexPerms(Len(d))} : IsSortedBy(t)}

\* merge_in_place, lines 93-96: discard signs so that merging produces Imean
\* faulty variant: the signs are discarded whatever the flag
discard_signs_always(d, output_plus_minus) ==
  [i \in 1..Len(d) |-> [d[i] EXCEPT !.isign = 0]]
discard_signs(d, output_plus_minus) ==
  IF output_plus_minus THEN d ELSE [i \in 1..Len(d) |-> [d[i] EXCEPT !.isign = 0]]

\* switch_to_asu_indices on one observation
\* faulty variant: the sign is set but hkl is not replaced
asu_refl_keeps_hkl(refl, merged) ==
  IF is_in(refl.hkl) THEN refl
  ELSE [refl EXCEPT !.isign = IF merged THEN refl.isign
                               ELSE IF to_asu(refl.hkl)[2] % 2 = 0 THEN -1 ELSE 1]
asu_refl(refl, merged) ==
  IF is_in(refl.hkl) THEN refl
  ELSE LET hkl_isym == to_asu(refl.hkl)
       IN [refl EXCEPT !.hkl = hkl_isym[1],
                       !.isign = IF merged THEN refl.isign
                                 ELSE IF hkl_isym[2] % 2 = 0 THEN -1 ELSE 1]
asu_indices(d, merged) == [i \in 1..Len(d) |-> asu_refl(d[i], merged)]

\* vector_remove_if(data, is_systematically_absent)
RECURSIVE remove_if_absent(_)
remove_if_absent(d) ==
  IF d = <<>> THEN <<>>
  ELSE IF is_systematically_absent(Head(d).hkl) THEN remove_if_absent(Tail(d))
  ELSE <<Head(d)>> \o remove_if_absent(Tail(d))

\* resolution_range's loop over data[i..], carrying <<min_1_d2, max_1_d2>>
RECURSIVE range_loop(_, _, _)
range_loop(d, min_1_d2, max_1_d2) ==
  IF d = <<>> THEN <<min_1_d2, max_1_d2>>
  ELSE LET a_1_d2 == calculate_1_d2(Head(d).hkl)
       IN range_loop(Tail(d),
                     IF Lt(a_1_d2, min_1_d2) THEN a_1_d2 ELSE min_1_d2,
                     IF Gt(a_1_d2, max_1_d2) THEN a_1_d2 ELSE max_1_d2)
\* faulty variant: the two limits in the other order
resolution_range_swapped(d) ==
  LET mm == range_loop(d, PInf, D(0))
  IN <<FDiv(D(1), FSqrt(mm[2])), FDiv(D(1), FSqrt(mm[1]))>>
resolution_range(d) ==
  LET mm == range_loop(d, PInf, D(0))
  IN <<FDiv(D(1), FSqrt(mm[1])), FDiv(D(1), FSqrt(mm[2]))>>

\* ------------------------------------------------------------------- state
VARIABLES
  pc,          \* "new", "reading", "ready", "loop" (in merge_in_place's for), "failed", "crashed"
  data,        \* Intensities::data
  spacegroup,  \* Intensities::spacegroup: NoGroup is nullptr
  reader,      \* the read_* routine that is building this Intensities
  nread,       \* intensity values of the source read so far
  output_plus_minus,   \* merge_in_place's argument
  in,          \* merge_in_place's read iterator, an index into data
  out,         \* merge_in_place's write iterator, an index into data
  sum_wI,      \* merge_in_place's accumulators
  sum_w,
  range,       \* what the last operation returned, when it was resolution_range
  last,        \* history: the last operation that returned
  before,      \* history: data when switch_to_asu_indices or merge_in_place was last called
  again,       \* history: the last two operations were both switch_to_asu_indices
  sorted,      \* history: data after merge_in_place's sort()
  accepted,    \* history: values read that were not NaN and had sigma > 0
  null_deref,  \* history: spacegroup->operations() ran on a null spacegroup
  calls        \* history: merge_in_place calls so far

vars == <<pc, data, spacegroup, reader, nread, output_plus_minus, in, out, sum_wI,
          sum_w, range, last, before, again, sorted, accepted, null_deref, calls>>

merge_locals == <<output_plus_minus, in, out, sum_wI, sum_w, sorted, calls>>

Zero == D(0)
NoRange == <<NaN, NaN>>

\* ----------------------------------------------------------------- sources
\* values and sigmas a source file can hold
SrcValues == {D(1), NaN, PInf}
SrcSigmas == {D(-1), D(0), D(2)}
\* M/ISYM codes of an unmerged MTZ file
SrcIsym == {1, 2}
\* space-group numbers of an XDS_ASCII file: unset, and P 1 21 1
SrcNumbers == {0, 4}

UnmergedReaders == {"read_unmerged_intensities_from_mtz",
                    "read_unmerged_intensities_from_mmcif",
                    "read_unmerged_intensities_from_xds"}
MeanReaders == {"read_mean_intensities_from_mtz", "read_mean_intensities_from_mmcif"}
AnomalousReaders == {"read_anomalous_intensities_from_mtz",
                     "read_anomalous_intensities_from_mmcif"}
Readers == UnmergedReaders \cup MeanReaders \cup AnomalousReaders

\* history only: what a source row had to be for its value to be kept
NotNaNPositive(value, sigma) == ~IsNaN(value) /\ Gt(sigma, Zero)
Count(b) == IF b THEN 1 ELSE 0

\* a reader got past its checks: the Intensities exists, its data is empty
Opened(r, sg) ==
  /\ pc' = "reading"
  /\ reader' = r
  /\ spacegroup' = sg
  /\ UNCHANGED <<data, nread, accepted, merge_locals, range, last, before, again,
                 null_deref>>

\* fail(...): the reader throws and no Intensities is returned
Failed(r) ==
  /\ pc' = "failed"
  /\ reader' = r
  /\ UNCHANGED <<data, spacegroup, nread, accepted, merge_locals, range, last,
                 before, again, null_deref>>

\* lines 134-148
read_unmerged_intensities_from_mtz_open ==
  /\ pc = "new"
  /\ \E batches_empty \in BOOLEAN, isym_is_4th \in BOOLEAN,
        sg \in SpaceGroups \cup {NoGroup} :
       IF batches_empty \/ ~isym_is_4th \/ sg = NoGroup
       THEN Failed("read_unmerged_intensities_from_mtz")
       ELSE Opened("read_unmerged_intensities_from_mtz", sg)

\* lines 163-172 and 177-186: copy_metadata fails on a null space group
read_merged_intensities_from_mtz_open ==
  /\ pc = "new"
  /\ \E r \in {"read_mean_intensities_from_mtz", "read_anomalous_intensities_from_mtz"},
        batches_empty \in BOOLEAN, has_columns \in BOOLEAN,
        sg \in SpaceGroups \cup {NoGroup} :
       IF ~batches_empty \/ ~has_columns \/ sg = NoGroup
       THEN Failed(r)
       ELSE Opened(r, sg)

\* lines 200-205, 211-216, 221-228
read_intensities_from_mmcif_open ==
  /\ pc = "new"
  /\ \E r \in {"read_unmerged_intensities_from_mmcif", "read_mean_intensities_from_mmcif",
               "read_anomalous_intensities_from_mmcif"},
        has_columns \in BOOLEAN, sg \in SpaceGroups \cup {NoGroup} :
       IF ~has_columns \/ sg = NoGroup
       THEN Failed(r)
       ELSE Opened(r, sg)

\* lines 242-247: nothing is checked
read_unmerged_intensities_from_xds_open ==
  /\ pc = "new"
  /\ \E spacegroup_number \in SrcNumbers :
       Opened("read_unmerged_intensities_from_xds",
              find_spacegroup_by_number(spacegroup_number))

\* one turn of the row loop of lines 149-156
read_unmerged_mtz_row ==
  /\ pc = "reading" /\ reader = "read_unmerged_intensities_from_mtz"
  /\ nread + 1 <= MaxValues
  /\ \E hkl \in Millers, isym \in SrcIsym, value \in SrcValues, sigma \in SrcSigmas :
       /\ data' = add_if_valid(data, Refl(hkl, IF isym % 2 = 0 THEN -1 ELSE 1, value, sigma))
       /\ accepted' = accepted + Count(NotNaNPositive(value, sigma))
  /\ nread' = nread + 1
  /\ UNCHANGED <<pc, spacegroup, reader, merge_locals, range, last, before, again,
                 null_deref>>

\* one turn of read_data's loop (lines 68-74) or of the loop of lines 248-254
read_data_row ==
  /\ pc = "reading"
  /\ reader \in MeanReaders \cup {"read_unmerged_intensities_from_mmcif",
                                  "read_unmerged_intensities_from_xds"}
  /\ nread + 1 <= MaxValues
  /\ \E hkl \in Millers, value \in SrcValues, sigma \in SrcSigmas :
       /\ data' = add_if_valid(data, Refl(hkl, 0, value, sigma))
       /\ accepted' = accepted + Count(NotNaNPositive(value, sigma))
  /\ nread' = nread + 1
  /\ UNCHANGED <<pc, spacegroup, reader, merge_locals, range, last, before, again,
                 null_deref>>

\* one turn of the outer loop of lines 187-195 or 230-238: j = 0 is I(+), j = 1 is I(-)
read_anomalous_row ==
  /\ pc = "reading" /\ reader \in AnomalousReaders
  /\ nread + 2 <= MaxValues
  /\ \E hkl \in Millers, value \in [1..2 -> SrcValues], sigma \in [1..2 -> SrcSigmas] :
       /\ data' = add_if_valid(add_if_valid(data, Refl(hkl, 1, value[1], sigma[1])),
                               Refl(hkl, -1, value[2], sigma[2]))
       /\ accepted' = accepted + Count(NotNaNPositive(value[1], sigma[1]))
                               + Count(NotNaNPositive(value[2], sigma[2]))
  /\ nread' = nread + 2
  /\ UNCHANGED <<pc, spacegroup, reader, merge_locals, range, last, before, again,
                 null_deref>>

\* what spacegroup->operations() on a null spacegroup can do: stop the
\* process, or go on with whatever the null object yields, here a group
\* whose asymmetric unit holds every index, or the operations of a real group
NullDeref(d, merged, name) ==
  /\ null_deref' = TRUE
  /\ before' = d
  /\ again' = FALSE
  /\ \/ /\ pc' = "crashed"
        /\ UNCHANGED <<data, last>>
     \/ /\ pc' = "ready"
        /\ last' = name
        /\ data' \in {d, asu_indices(d, merged)}

\* the end of a reader: the unmerged readers call switch_to_asu_indices()
\* (lines 159, 207, 255), then the Intensities is returned
read_return ==
  /\ pc = "reading"
  /\ IF reader \in UnmergedReaders
     THEN IF spacegroup = NoGroup
          THEN NullDeref(data, FALSE, reader)
          ELSE /\ data' = asu_indices(data, FALSE)
               /\ before' = data
               /\ pc' = "ready"
               /\ last' = reader
               /\ UNCHANGED <<null_deref, again>>
     ELSE /\ pc' = "ready"
          /\ last' = reader
          /\ UNCHANGED <<data, before, null_deref, again>>
  /\ reader' = "none"
  /\ nread' = 0
  /\ UNCHANGED <<spacegroup, accepted, merge_locals, range>>

\* -------------------------------------------- operations on an Intensities
\* lines 119-130
switch_to_asu_indices ==
  /\ pc = "ready"
  /\ \E merged \in BOOLEAN :
       IF spacegroup = NoGroup
       THEN NullDeref(data, merged, "switch_to_asu_indices")
       ELSE /\ data' = asu_indices(data, merged)
            /\ before' = data
            /\ again' = (last = "switch_to_asu_indices")
            /\ last' = "switch_to_asu_indices"
            /\ UNCHANGED <<pc, null_deref>>
  /\ range' = NoRange
  /\ accepted' = 0
  /\ UNCHANGED <<spacegroup, reader, nread, merge_locals>>

\* lines 79-86
remove_systematic_absences ==
  /\ pc = "ready"
  /\ data' = IF spacegroup = NoGroup THEN data ELSE remove_if_absent(data)
  /\ last' = "remove_systematic_absences"
  /\ before' = <<>> /\ again' = FALSE /\ range' = NoRange /\ accepted' = 0
  /\ UNCHANGED <<pc, spacegroup, reader, nread, merge_locals, null_deref>>

\* line 88
sort_data ==
  /\ pc = "ready"
  /\ data' \in sort(data)
  /\ last' = "sort"
  /\ before' = <<>> /\ again' = FALSE /\ range' = NoRange /\ accepted' = 0
  /\ UNCHANGED <<pc, spacegroup, reader, nread, merge_locals, null_deref>>

\* lines 38-49
resolution_range_call ==
  /\ pc = "ready"
  /\ range' = resolution_range(data)
  /\ last' = "resolution_range"
  /\ before' = <<>> /\ again' = FALSE /\ accepted' = 0
  /\ UNCHANGED <<pc, data, spacegroup, reader, nread, merge_locals, null_deref>>

\* merge_in_place, lines 90-100: the early return, or the signs discarded,
\* the sort, and the iterators and accumulators at the head of the for loop
merge_in_place_enter ==
  /\ pc = "ready"
  /\ calls < MaxCalls
  /\ calls' = calls + 1
  /\ before' = data
  /\ \E flag \in BOOLEAN :
       /\ output_plus_minus' = flag
       /\ IF data = <<>>
          THEN /\ last' = "merge_in_place"
               /\ UNCHANGED <<pc, data, in, out, sum_wI, sum_w, sorted>>
          ELSE /\ data' \in sort(discard_signs(data, flag))
               /\ sorted' = data'
               /\ out' = 1
               /\ in' = 1
               /\ sum_wI' = Zero
               /\ sum_w' = Zero
               /\ pc' = "loop"
               /\ UNCHANGED last
  /\ again' = FALSE /\ range' = NoRange /\ accepted' = 0
  /\ UNCHANGED <<spacegroup, reader, nread, null_deref>>

\* faulty variant: out is advanced before the finished run is written
emit_run_after_increment(d, o, i, swI, sw) ==
  [d EXCEPT ![o + 1].value = FDiv(swI, sw),
            ![o + 1].sigma = FDiv(D(1), FSqrt(sw)),
            ![o + 1].hkl = d[i].hkl,
            ![o + 1].isign = d[i].isign]

\* the assignments of lines 103-108 on a change of key: the finished run is
\* written at out, out moves on and takes the key at in
emit_run(d, o, i, swI, sw) ==
  LET d1 == [d EXCEPT ![o].value = FDiv(swI, sw),
                      ![o].sigma = FDiv(D(1), FSqrt(sw))]
  IN [d1 EXCEPT ![o + 1].hkl = d1[i].hkl, ![o + 1].isign = d1[i].isign]

\* faulty variant: the weight is 1/sigma
weight_inverse_sigma(refl) == FDiv(D(1), refl.sigma)

\* the weight of line 110
weight(refl) == FDiv(D(1), FMul(refl.sigma, refl.sigma))

\* one turn of the for loop, lines 101-113
merge_in_place_step ==
  /\ pc = "loop"
  /\ in <= Len(data)
  /\ LET changed == data[out].hkl # data[in].hkl \/ data[out].isign # data[in].isign
         d == IF changed THEN emit_run(data, out, in, sum_wI, sum_w) ELSE data
         w == weight(d[in])
     IN /\ data' = d
        /\ out' = IF changed THEN out + 1 ELSE out
        /\ sum_wI' = FAdd(IF changed THEN Zero ELSE sum_wI, FMul(w, d[in].value))
        /\ sum_w' = FAdd(IF changed THEN Zero ELSE sum_w, w)
  /\ in' = in + 1
  /\ UNCHANGED <<pc, spacegroup, reader, nread, output_plus_minus, sorted, calls, range,
                 last, before, again, accepted, null_deref>>

\* lines 114-116: the last run is written and the tail erased
merge_in_place_exit ==
  /\ pc = "loop"
  /\ in > Len(data)
  /\ data' = SubSeq([data EXCEPT ![out].value = FDiv(sum_wI, sum_w),
                                 ![out].sigma = FDiv(D(1), FSqrt(sum_w))], 1, out)
  /\ pc' = "ready"
  /\ last' = "merge_in_place"
  /\ UNCHANGED <<spacegroup, reader, nread, merge_locals, range, before, again,
                 accepted, null_deref>>

\* ---------------------------------------------------------- specifications
\* everything but pc, data and spacegroup at its starting value
Fresh ==
  /\ reader = "none"
  /\ nread = 0
  /\ output_plus_minus = FALSE
  /\ in = 1
  /\ out = 1
  /\ sum_wI = Zero
  /\ sum_w = Zero
  /\ range = NoRange
  /\ last = "none"
  /\ before = <<>>
  /\ again = FALSE
  /\ sorted = <<>>
  /\ accepted = 0
  /\ null_deref = FALSE
  /\ calls = 0

\* before any reader has run
Init ==
  /\ pc = "new"
  /\ data = <<>>
  /\ spacegroup = NoGroup
  /\ Fresh

\* a reader builds an Intensities, then its operations are called in any order
Next ==
  \/ read_unmerged_intensities_from_mtz_open
  \/ read_merged_intensities_from_mtz_open
  \/ read_intensities_from_mmcif_open
  \/ read_unmerged_intensities_from_xds_open
  \/ read_unmerged_mtz_row
  \/ read_data_row
  \/ read_anomalous_row
  \/ read_return
  \/ switch_to_asu_indices
  \/ remove_systematic_absences
  \/ sort_data
  \/ resolution_range_call
  \/ merge_in_place_enter
  \/ merge_in_place_step
  \/ merge_in_place_exit

Spec == Init /\ [][Next]_vars

\* the observations merge_in_place is run on: one index with both signs and
\* values and sigmas some of whose weights, products and sums round, and one
\* observation of a second index
MergeMiller == <<1, 2, 3>>
MergeSigns == {-1, 1}
MergeNumbers == {<<D(10), D(2)>>, <<D(14), D(2)>>, <<D(14), D(5)>>}
MergeOther == Refl(<<0, 0, 1>>, 1, D(14), D(5))
MergeObs ==
  {Refl(MergeMiller, isign, vs[1], vs[2]) : isign \in MergeSigns, vs \in MergeNumbers}
    \cup {MergeOther}
SeqsUpTo(S, n) == UNION {[1..m -> S] : m \in 0..n}

\* an Intensities as a reader returned it, of up to MaxLen observations
InitMerge ==
  /\ pc = "ready"
  /\ data \in SeqsUpTo(MergeObs, MaxLen)
  /\ spacegroup = "P21"
  /\ Fresh

NextMerge ==
  \/ merge_in_place_enter
  \/ merge_in_place_step
  \/ merge_in_place_exit

SpecMerge == InitMerge /\ [][NextMerge]_vars

\* ------------------------------------------------- what the claims speak of
\* merge_in_place has returned from a call on a non-empty data
Returned == pc = "ready" /\ last = "merge_in_place" /\ before # <<>>

\* (h, k, l, isign) of a strictly below that of b
KeyBefore(a, b) ==
  \/ a.hkl[1] < b.hkl[1]
  \/ a.hkl[1] = b.hkl[1] /\ a.hkl[2] < b.hkl[2]
  \/ a.hkl[1] = b.hkl[1] /\ a.hkl[2] = b.hkl[2] /\ a.hkl[3] < b.hkl[3]
  \/ a.hkl = b.hkl /\ a.isign < b.isign
SameKey(a, b) == a.hkl = b.hkl /\ a.isign = b.isign
StrictlyAscending(d) == \A i, j \in 1..Len(d) : i < j => KeyBefore(d[i], d[j])
UniqueKeys(d) == \A i, j \in 1..Len(d) : i # j => ~SameKey(d[i], d[j])
KeySet(d) == {<<d[i].hkl, d[i].isign>> : i \in 1..Len(d)}

\* the input of a merge as the merger keys it: signs kept or all None
Keyed(d, keep) == [i \in 1..Len(d) |-> [d[i] EXCEPT !.isign = IF keep THEN @ ELSE 0]]

\* every ordering of d that ascends (not strictly) in (h, k, l, isign)
Orderings(d) ==
  {t \in {[i \in 1..Len(d) |-> d[p[i]]] : p \in IndexPerms(Len(d))} :
     \A i, j \in 1..Len(t) : i < j => ~KeyBefore(t[j], t[i])}

\* the observations of d with the key of r, in d's order
RECURSIVE RunOf(_, _)
RunOf(d, r) ==
  IF d = <<>> THEN <<>>
  ELSE IF SameKey(Head(d), r) THEN <<Head(d)>> \o RunOf(Tail(d), r)
  ELSE RunOf(Tail(d), r)

\* <<sum of value/sigma^2, sum of 1/sigma^2>> over a run, accumulated from
\* zero in the run's order in double arithmetic
RECURSIVE RunSums(_, _, _)
RunSums(run, swI, sw) ==
  IF run = <<>> THEN <<swI, sw>>
  ELSE LET w == FDiv(D(1), FMul(Head(run).sigma, Head(run).sigma))
       IN RunSums(Tail(run), FAdd(swI, FMul(w, Head(run).value)), FAdd(sw, w))
RunValue(run) == LET s == RunSums(run, Zero, Zero) IN FDiv(s[1], s[2])
RunSigma(run) == LET s == RunSums(run, Zero, Zero) IN FDiv(D(1), FSqrt(s[2]))

\* the merger that builds a new sequence from a sorted one: one observation
\* for each run of equal keys
RECURSIVE BuildMerged(_)
BuildMerged(t) ==
  IF t = <<>> THEN <<>>
  ELSE LET run == RunOf(t, Head(t))
       IN <<Refl(Head(t).hkl, Head(t).isign, RunValue(run), RunSigma(run))>>
          \o BuildMerged(SubSeq(t, Len(run) + 1, Len(t)))

\* exact rational arithmetic on <<numerator, denominator>>, denominator > 0
RECURSIVE Gcd(_, _)
Gcd(a, b) == IF b = 0 THEN a ELSE Gcd(b, a % b)
QN(n, d) == LET g == Gcd(Abs(n), d) IN <<n \div g, d \div g>>
Q(x) == IF x.e >= 0 THEN <<x.n * Pow2(x.e), 1>> ELSE QN(x.n, Pow2(-x.e))
QAdd(a, b) == QN(a[1] * b[2] + b[1] * a[2], a[2] * b[2])
QMul(a, b) == QN(a[1] * b[1], a[2] * b[2])
QInv(a) == IF a[1] < 0 THEN <<-a[2], -a[1]>> ELSE <<a[2], a[1]>>
\* the double nearest to a rational
QRound(a) == IF a[1] = 0 THEN Zero ELSE RoundQuot(Sgn(a[1]), Abs(a[1]), a[2], 0)

\* the inverse-variance weighted mean of a run, in exact arithmetic
RECURSIVE ExactSums(_)
ExactSums(run) ==
  IF run = <<>> THEN <<(<<0, 1>>), (<<0, 1>>)>>
  ELSE LET w == QInv(QMul(Q(Head(run).sigma), Q(Head(run).sigma)))
           rest == ExactSums(Tail(run))
       IN <<QAdd(QMul(w, Q(Head(run).value)), rest[1]), QAdd(w, rest[2])>>
ExactMean(run) == LET s == ExactSums(run) IN QMul(s[1], QInv(s[2]))

\* |y - x| <= 4 * 2^-Precision * |x| for finite doubles: y is x but for the
\* rounding of a few operations
Within(y, x) ==
  LET d == QAdd(Q(y), <<-Q(x)[1], Q(x)[2]>>)
  IN Abs(d[1]) * Pow2(Precision) * Q(x)[2] <= 4 * Abs(Q(x)[1]) * d[2]
IsPowerOfTwo(x) == IsFin(x) /\ x.n = 1

\* the two observations of the spec's scenario, in either order
IsScenario(run) ==
  /\ Len(run) = 2
  /\ {<<run[1].value, run[1].sigma>>, <<run[2].value, run[2].sigma>>}
       = {<<D(10), D(2)>>, <<D(14), D(2)>>}

\* -------------------------------------------------------------------- C1
\* C1: after merge_in_place returns on a non-empty data, for either flag, data
\* is in strictly ascending order of (h, k, l, isign), so no two observations
\* share a key.
C1_SortedUnique ==
  Returned => StrictlyAscending(data) /\ UniqueKeys(data)

\* a merge of three observations in descending input order that joined two
C1_Witness ==
  /\ Returned
  /\ Len(before) = 3 /\ Len(data) = 2
  /\ KeyBefore(before[3], before[1])

C3_FiniteValues ==
  (pc \in {"reading", "ready"} /\ calls = 0) =>
    \A i \in 1..Len(data) : Gt(data[i].sigma, Zero) /\ IsFin(data[i].value)

\* C3 as amended: every observation has sigma > 0 and a value that is not NaN
\* (it may be infinite); add_if_valid appends an observation if and only if
\* its value is not NaN and its sigma > 0.
C3_NotNaNValues ==
  /\ (pc \in {"reading", "ready"} /\ calls = 0) =>
       \A i \in 1..Len(data) : Gt(data[i].sigma, Zero) /\ ~IsNaN(data[i].value)
  /\ (pc = "reading" \/ (pc = "ready" /\ last \in Readers)) => Len(data) = accepted

\* two values read: one rejected, one infinite one kept
C3_Witness ==
  /\ pc = "ready" /\ last \in Readers
  /\ accepted = 1 /\ Len(data) = 1
  /\ data[1].value = PInf

\* -------------------------------------------------------------------- C5
\* C5: no reader returns an Intensities whose spacegroup is null, and none
\* runs switch_to_asu_indices on a null spacegroup.
C5_NoNullSpaceGroup ==
  /\ ~null_deref
  /\ (pc = "ready" /\ last \in Readers) => spacegroup # NoGroup

\* -------------------------------------------------------------------- C6
\* C6: after switch_to_asu_indices returns (called by a reader or directly,
\* with either value of merged) every hkl is inside the asymmetric unit of the
\* set's space group, and a second call changes no observation.
C6_AsuClosure ==
  /\ (pc = "ready" /\ spacegroup # NoGroup
        /\ last \in UnmergedReaders \cup {"switch_to_asu_indices"}) =>
       \A i \in 1..Len(data) : is_in(data[i].hkl)
  /\ (again /\ spacegroup # NoGroup) => data = before

\* a second call in a row on two observations
C6_Witness ==
  /\ pc = "ready" /\ again /\ spacegroup # NoGroup
  /\ last = "switch_to_asu_indices"
  /\ Len(data) = 2
  /\ data[1].isign # 0

\* -------------------------------------------------------------------- C7
\* C7: after an unmerged reader returns (with a space group) every
\* observation's sign is Plus or Minus, none is None.
C7_NoSignNone ==
  (pc = "ready" /\ last \in UnmergedReaders /\ spacegroup # NoGroup) =>
    \A i \in 1..Len(data) : data[i].isign \in {-1, 1}

\* -------------------------------------------------------------------- C8
Seen1d2(d) == {calculate_1_d2(d[i].hkl) : i \in 1..Len(d)}
Min1d2(d) == CHOOSE x \in Seen1d2(d) : \A y \in Seen1d2(d) : ~Lt(y, x)
Max1d2(d) == CHOOSE x \in Seen1d2(d) : \A y \in Seen1d2(d) : ~Lt(x, y)
RangeCalled == pc = "ready" /\ last = "resolution_range" /\ data # <<>>

\* C8 as claimed: on a non-empty set resolution_range returns
\* <<1/sqrt(max d*^2), 1/sqrt(min d*^2)>>, first element <= second.
C8_HighThenLow ==
  RangeCalled =>
    /\ range[1] = FDiv(D(1), FSqrt(Max1d2(data)))
    /\ range[2] = FDiv(D(1), FSqrt(Min1d2(data)))
    /\ ~Gt(range[1], range[2])

\* C8 as amended: it returns <<1/sqrt(min d*^2), 1/sqrt(max d*^2)>>, the
\* low-resolution limit first, so first element >= second.
C8_LowThenHigh ==
  RangeCalled =>
    /\ range[1] = FDiv(D(1), FSqrt(Min1d2(data)))
    /\ range[2] = FDiv(D(1), FSqrt(Max1d2(data)))
    /\ ~Lt(range[1], range[2])

\* a set with two different spacings
C8_Witness == RangeCalled /\ Gt(range[1], range[2])

\* -------------------------------------------------------------------- C4
\* C4 as claimed: on a data with at most one observation per key,
\* merge_in_place with either flag leaves data as it was.
C4_NoOp ==
  (Returned /\ UniqueKeys(before)) => data = before

\* C4 as amended: on a data in strictly ascending key order, merge_in_place
\* with output_plus_minus = true, or with false when every isign is already
\* 0, keeps every key in its place and every value and sigma to within a
\* relative error of 4 * 2^-Precision, exactly when the sigma is a power of two.
C4_NoOpOnMerged ==
  (/\ Returned
   /\ StrictlyAscending(before)
   /\ output_plus_minus \/ \A i \in 1..Len(before) : before[i].isign = 0) =>
    /\ Len(data) = Len(before)
    /\ \A i \in 1..Len(data) :
         /\ SameKey(data[i], before[i])
         /\ Within(data[i].value, before[i].value)
         /\ Within(data[i].sigma, before[i].sigma)
         /\ IsPowerOfTwo(before[i].sigma) => data[i] = before[i]

\* a second merge, of the two observations the first one left
C4_Witness ==
  /\ Returned /\ calls = 2
  /\ StrictlyAscending(before) /\ Len(before) = 2
  /\ output_plus_minus
  /\ Len(data) = 2

\* -------------------------------------------------------------------- C9
\* C9 as claimed: whatever the order of the input, the output is the same
\* sequence: the one the merger builds from any ordering of the input
\* that ascends in the key.
C9_SameOutput ==
  Returned =>
    \A t \in Orderings(Keyed(before, output_plus_minus)) : BuildMerged(t) = data

\* C9 as amended: whatever the order of the input, the output has the same
\* keys in the same order, and the same value and sigma for every key that
\* one or two observations have; with three or more observations of a key
\* the value and sigma depend on the order they are accumulated in.
C9_SameKeys ==
  Returned =>
    \A t \in Orderings(Keyed(before, output_plus_minus)) :
      LET r == BuildMerged(t)
      IN /\ Len(r) = Len(data)
         /\ \A i \in 1..Len(data) :
              /\ SameKey(r[i], data[i])
              /\ Len(RunOf(t, data[i])) <= 2 => r[i] = data[i]

\* three observations of one key whose other orderings merge differently
C9_Witness ==
  /\ Returned
  /\ Len(before) = 3 /\ Len(data) = 1
  /\ \E t \in Orderings(Keyed(before, output_plus_minus)) : BuildMerged(t) # data

\* ------------------------------------------------------------------- C10
\* C10: in the for loop out never gets ahead of in, both stay inside data, no
\* observation at or after in has been written, and on return data is what
\* the merger that builds a new sequence makes of the same sorted input, the
\* erase having cut data after the last run written.
C10_InPlaceIsBuild ==
  /\ pc = "loop" =>
       /\ 1 <= out /\ out <= in /\ (in > 1 => out < in)
       /\ out <= Len(data) /\ in <= Len(data) + 1
       /\ Len(data) = Len(sorted)
       /\ \A j \in in..Len(data) : data[j] = sorted[j]
  /\ Returned => data = BuildMerged(sorted) /\ Len(data) = out

\* the loop about to read the third observation, a new key, with one run
\* of two read so far: the write goes to position 2, behind the read
C10_Witness ==
  /\ pc = "loop"
  /\ Len(data) = 3 /\ in = 3 /\ out = 1
  /\ ~SameKey(data[3], data[1])

====
